---- MODULE Spec2Model ----
(***************************************************************************)
(* Model of scripts/optimizer.py (the transcoder of VideoDownloader).      *)
(*                                                                         *)
(* Spec       one run of main(): directory check, discovery, and for each  *)
(*            candidate the encode, the duration probe and the thumbnail,  *)
(*            with every outcome subprocess.run can produce.               *)
(* SpecScale  the scale filter of build_ffmpeg_cmd applied to frame sizes. *)
(* SpecSize   format_size applied to byte counts.                          *)
(*                                                                         *)
(* File names are sequences of one-character strings so that Path.suffix   *)
(* and Path.stem are computed as pathlib computes them.                    *)
(***************************************************************************)
EXTENDS Integers, Sequences, FiniteSets, TLC

VARIABLES
    inputDirExists, \* INPUT_DIR.exists() when main() starts
    fs0,            \* the file system when main() starts
    fs,             \* the file system now: path -> [kind, content]
    pc,             \* position of main()
    mkdirDone,      \* OUTPUT_DIR.mkdir(...) has been called
    videos,         \* the list built at line 167
    idx,            \* index in videos of the candidate of the current iteration
    seek,           \* seek_sec of extract_thumbnail, in milliseconds
    log,            \* the external tool invocations so far, with their outcomes
    thumbRet,       \* per candidate: what extract_thumbnail did
    written,        \* the writes of the run: [path, by: the iteration that wrote it]
    printed,        \* which of the closing messages were printed
    scaleIn, scaleOut,  \* SpecScale: frame size in, scaled size out
    sizeIn, sizeOut     \* SpecSize: byte count in, text out

vars == <<inputDirExists, fs0, fs, pc, mkdirDone, videos, idx, seek, log,
          thumbRet, written, printed, scaleIn, scaleOut, sizeIn, sizeOut>>

runVars == <<inputDirExists, fs0, fs, pc, mkdirDone, videos, idx, seek, log,
             thumbRet, written, printed>>

----------------------------------------------------------------------------
(* Bounds of the model *)

\* at most this many entries under INPUT_DIR
MaxEntries == 3

----------------------------------------------------------------------------
(* Paths *)

INPUT_DIR == "data/original"

OUTPUT_DIR == "data/processed"

\* a subdirectory of INPUT_DIR, reached by rglob
SUB_DIR == "data/original/sub"

InputDirs == {INPUT_DIR, SUB_DIR}

VIDEO_EXTS ==
    { <<".", "m", "p", "4">>, <<".", "m", "o", "v">>, <<".", "m", "k", "v">>,
      <<".", "w", "e", "b", "m">>, <<".", "a", "v", "i">>, <<".", "m", "4", "v">> }

THUMBNAIL_EXT == <<".", "w", "e", "b", "p">>

VIDEO_OUT_EXT == <<".", "m", "p", "4">>

\* str.lower() on one character
LowerChar(c) ==
    CASE c = "A" -> "a" [] c = "I" -> "i" [] c = "K" -> "k" [] c = "M" -> "m"
      [] c = "O" -> "o" [] c = "P" -> "p" [] c = "V" -> "v" [] c = "W" -> "w"
      [] OTHER -> c

Lower(s) == [k \in 1..Len(s) |-> LowerChar(s[k])]

\* str.rfind("."), 1-based; 0 when there is no dot
RFindDot(name) ==
    LET dots == {k \in 1..Len(name) : name[k] = "."}
    IN  IF dots = {} THEN 0 ELSE CHOOSE k \in dots : \A j \in dots : j <= k

\* PurePath.suffix: the last dot and what follows, unless the dot is the first
\* or the last character of the name
Suffix(name) ==
    LET i == RFindDot(name)
    IN  IF 1 < i /\ i < Len(name) THEN SubSeq(name, i, Len(name)) ELSE <<>>

\* PurePath.stem
Stem(name) ==
    LET i == RFindDot(name)
    IN  IF 1 < i /\ i < Len(name) THEN SubSeq(name, 1, i - 1) ELSE name

\* the output written beside its source instead of under OUTPUT_DIR
DstPathBesideSource(src) == [dir |-> src.dir, name |-> Stem(src.name) \o VIDEO_OUT_EXT]

\* line 173: OUTPUT_DIR / f"{src.stem}.mp4"
DstPath(src) == [dir |-> OUTPUT_DIR, name |-> Stem(src.name) \o VIDEO_OUT_EXT]

\* line 174: OUTPUT_DIR / f"{src.stem}{THUMBNAIL_EXT}"
ThumbPath(src) == [dir |-> OUTPUT_DIR, name |-> Stem(src.name) \o THUMBNAIL_EXT]

----------------------------------------------------------------------------
(* The input trees the model starts from *)

NameAMP4 == <<"a", ".", "M", "P", "4">>
NameAmov == <<"a", ".", "m", "o", "v">>
NameBmkv == <<"b", ".", "m", "k", "v">>
NameCtxt == <<"c", ".", "t", "x", "t">>
NameD == <<"d">>

File(dir, name) == [path |-> [dir |-> dir, name |-> name], kind |-> "file"]
Dir(dir, name) == [path |-> [dir |-> dir, name |-> name], kind |-> "dir"]

EntryUniverse ==
    { File(INPUT_DIR, NameAMP4), File(INPUT_DIR, NameAmov),
      File(SUB_DIR, NameAMP4), File(INPUT_DIR, NameBmkv),
      Dir(INPUT_DIR, NameBmkv), File(INPUT_DIR, NameCtxt),
      File(SUB_DIR, NameD) }

\* a tree holds one entry per path
Trees ==
    { t \in SUBSET EntryUniverse :
        /\ Cardinality(t) <= MaxEntries
        /\ \A e1, e2 \in t : e1.path = e2.path => e1 = e2 }

Original(p) == [src |-> p, what |-> "orig"]

FsOf(t) ==
    [p \in {e.path : e \in t} |->
        LET e == CHOOSE x \in t : x.path = p
        IN  [kind |-> e.kind, content |-> Original(p)]]

\* every ordering of a finite set
SeqsOf(S) ==
    { s \in [1..Cardinality(S) -> S] : \A i, j \in DOMAIN s : s[i] = s[j] => i = j }

Range(s) == {s[k] : k \in DOMAIN s}

Last(s) == s[Len(s)]

----------------------------------------------------------------------------
(* main(): lines 161-194 *)

\* line 167: every entry rglob("*") yields whose suffix, lowered, is in VIDEO_EXTS
Discover(f) ==
    { p \in DOMAIN f : p.dir \in InputDirs /\ Lower(Suffix(p.name)) \in VIDEO_EXTS }

\* mkdir moved above the existence check
MkdirBeforeCheck(exists) == TRUE

\* lines 162-165: mkdir is reached only past the existence check
MkdirReached(exists) == exists

\* the loop body without its except clause
EncodeCaughtNothing(out) == FALSE

\* line 191: the except clause of the loop body
EncodeCaught(out) == out = "nonzero"

\* extract_thumbnail moved after the try statement: it runs after a caught failure too
AfterEncodeThumbOutsideTry(out) ==
    IF out = "ok" \/ EncodeCaught(out) THEN "probe" ELSE "fatal"

\* lines 180-192: where the iteration goes after run(cmd)
AfterEncode(out) ==
    IF out = "ok" THEN "probe"
    ELSE IF EncodeCaught(out) THEN "next"
    ELSE "fatal"

\* an except clause that also names subprocess.TimeoutExpired
ThumbCaughtTimeoutToo(out) == out \in {"nonzero", "notfound", "timeout"}

\* line 110: the except clause of extract_thumbnail
ThumbCaught(out) == out \in {"nonzero", "notfound"}

\* lines 107-112 and 191: what extract_thumbnail does with the outcome of its
\* ffmpeg call: return True, return False, or let the exception leave main
AfterThumb(out) ==
    IF out = "ok" THEN "True"
    ELSE IF ThumbCaught(out) THEN "False"
    ELSE "raised"

\* ffmpeg's exits for a candidate: a directory cannot be decoded
EncodeOutcomes(src) ==
    IF fs0[src].kind = "file" THEN {"ok", "nonzero", "notfound"}
    ELSE {"nonzero", "notfound"}

\* what a tool that did not exit 0 may leave at its output path
MayWrite(out) ==
    CASE out = "ok" -> {TRUE}
      [] out = "notfound" -> {FALSE}
      [] OTHER -> BOOLEAN

WriteFile(f, p, c) ==
    [q \in DOMAIN f \cup {p} |-> IF q = p THEN [kind |-> "file", content |-> c] ELSE f[q]]

\* lines 172 and 194: the next iteration, or the closing message after the last
Advance ==
    IF idx < Len(videos)
    THEN /\ pc' = "encode"
         /\ idx' = idx + 1
         /\ UNCHANGED printed
    ELSE /\ pc' = "done"
         /\ idx' = idx
         /\ printed' = printed \cup {"listo"}

Event(tool, i, out) == [tool |-> tool, i |-> i, out |-> out]

Init ==
    /\ inputDirExists \in BOOLEAN
    /\ \E t \in Trees :
         /\ (~inputDirExists => t = {})
         /\ fs0 = FsOf(t)
    /\ fs = fs0
    /\ pc = "start"
    /\ mkdirDone = FALSE
    /\ videos = <<>>
    /\ idx = 0
    /\ seek = 0
    /\ log = <<>>
    /\ thumbRet = <<>>
    /\ written = {}
    /\ printed = {}
    /\ scaleIn = [mh |-> [set |-> FALSE, v |-> 0], iw |-> 0, ih |-> 0]
    /\ scaleOut = [done |-> TRUE, w |-> 0, h |-> 0]
    /\ sizeIn = 0
    /\ sizeOut = <<>>

\* lines 162-170
Start ==
    /\ pc = "start"
    /\ mkdirDone' = MkdirReached(inputDirExists)
    /\ IF ~inputDirExists
       THEN /\ pc' = "fatal"
            /\ UNCHANGED <<videos, idx, printed, thumbRet>>
       ELSE \E order \in SeqsOf(Discover(fs)) :
              /\ videos' = order
              /\ thumbRet' = [k \in 1..Len(order) |-> "none"]
              /\ IF order = <<>>
                 THEN /\ pc' = "done"
                      /\ idx' = 0
                      /\ printed' = {"no videos"}
                 ELSE /\ pc' = "encode"
                      /\ idx' = 1
                      /\ UNCHANGED printed
    /\ UNCHANGED <<inputDirExists, fs0, fs, seek, log, written,
                   scaleIn, scaleOut, sizeIn, sizeOut>>

\* lines 173-182 and 191-192: run(build_ffmpeg_cmd(src, dst))
Encode ==
    /\ pc = "encode"
    /\ LET src == videos[idx]
           dst == DstPath(src)
       IN  \E out \in EncodeOutcomes(src) : \E wrote \in MayWrite(out) :
             /\ log' = Append(log, Event("encode", idx, out))
             /\ IF wrote
                THEN /\ fs' = WriteFile(fs, dst,
                                [src |-> src, what |-> IF out = "ok" THEN "video" ELSE "partial"])
                     /\ written' = written \cup {[path |-> dst, by |-> idx]}
                ELSE UNCHANGED <<fs, written>>
             /\ CASE AfterEncode(out) = "probe" ->
                       /\ pc' = "probe"
                       /\ UNCHANGED <<idx, printed>>
                  [] AfterEncode(out) = "next" -> Advance
                  [] OTHER ->
                       /\ pc' = "fatal"
                       /\ UNCHANGED <<idx, printed>>
    /\ UNCHANGED <<inputDirExists, fs0, mkdirDone, videos, seek, thumbRet,
                   scaleIn, scaleOut, sizeIn, sizeOut>>

\* what subprocess.run gives get_duration_seconds: the process ran to an exit
\* status with some standard output, or timed out, or ffprobe was not found
Durations == {0, 10000}

ProbeStdouts ==
    {[kind |-> "empty", ms |-> 0], [kind |-> "text", ms |-> 0]}
      \cup {[kind |-> "number", ms |-> d] : d \in Durations}

ProbeResults ==
    {[st |-> "exit", rc |-> rc, stdout |-> o] : rc \in {0, 1}, o \in ProbeStdouts}
      \cup {[st |-> s, rc |-> 0, stdout |-> [kind |-> "empty", ms |-> 0]] :
               s \in {"timeout", "notfound"}}

ProbeOutcome(r) ==
    IF r.st # "exit" THEN r.st ELSE IF r.rc = 0 THEN "ok" ELSE "nonzero"

\* lines 68-73: None unless the exit status is 0 and the output parses as a number
get_duration_seconds(r) ==
    IF r.rc # 0 \/ r.stdout.kind = "empty" THEN [known |-> FALSE, ms |-> 0]
    ELSE IF r.stdout.kind = "number" THEN [known |-> TRUE, ms |-> r.stdout.ms]
    ELSE [known |-> FALSE, ms |-> 0]

\* lines 79-82
SeekSec(duration) ==
    IF ~duration.known \/ duration.ms <= 0 THEN 0 ELSE duration.ms \div 2

\* lines 53-67: subprocess.run raises for a timeout and for a missing binary;
\* line 78 calls get_duration_seconds outside any try
ProbeRaises(r) == r.st \in {"timeout", "notfound"}

\* line 78-82: the first half of extract_thumbnail
Probe ==
    /\ pc = "probe"
    /\ \E r \in ProbeResults :
         /\ log' = Append(log, Event("probe", idx, ProbeOutcome(r)))
         /\ IF ProbeRaises(r)
            THEN /\ pc' = "fatal"
                 /\ thumbRet' = [thumbRet EXCEPT ![idx] = "raised"]
                 /\ seek' = 0
            ELSE /\ pc' = "thumb"
                 /\ seek' = SeekSec(get_duration_seconds(r))
                 /\ UNCHANGED thumbRet
    /\ UNCHANGED <<inputDirExists, fs0, fs, mkdirDone, videos, idx, written, printed,
                   scaleIn, scaleOut, sizeIn, sizeOut>>

ThumbOutcomes == {"ok", "nonzero", "notfound", "timeout"}

\* lines 86-112 and 189-192: the second half of extract_thumbnail and the rest
\* of the iteration
Thumb ==
    /\ pc = "thumb"
    /\ LET src == videos[idx]
           dst == ThumbPath(src)
       IN  \E out \in ThumbOutcomes : \E wrote \in MayWrite(out) :
             /\ log' = Append(log, Event("thumb", idx, out))
             /\ IF wrote
                THEN /\ fs' = WriteFile(fs, dst,
                                [src |-> src, what |-> IF out = "ok" THEN "thumb" ELSE "partial"])
                     /\ written' = written \cup {[path |-> dst, by |-> idx]}
                ELSE UNCHANGED <<fs, written>>
             /\ thumbRet' = [thumbRet EXCEPT ![idx] = AfterThumb(out)]
             /\ seek' = 0
             /\ IF AfterThumb(out) = "raised"
                THEN /\ pc' = "fatal"
                     /\ UNCHANGED <<idx, printed>>
                ELSE Advance
    /\ UNCHANGED <<inputDirExists, fs0, mkdirDone, videos,
                   scaleIn, scaleOut, sizeIn, sizeOut>>

Next == Start \/ Encode \/ Probe \/ Thumb

Spec == Init /\ [][Next]_vars

----------------------------------------------------------------------------
(* Properties of a run *)

RunOver == pc \in {"done", "fatal"}

Attempted(tool, i) == \E k \in DOMAIN log : log[k].tool = tool /\ log[k].i = i

EncodeOk(i) == \E k \in DOMAIN log : log[k] = Event("encode", i, "ok")

EncodeFailed(i) == \E k \in DOMAIN log : log[k] = Event("encode", i, "nonzero")

FinalMessage == "listo" \in printed

\* the failures no except clause names
Uncaught(e) ==
    \/ e.tool = "encode" /\ e.out = "notfound"
    \/ e.tool = "probe" /\ e.out \in {"timeout", "notfound"}
    \/ e.tool = "thumb" /\ e.out = "timeout"

LaterAllProcessed(a) ==
    \A b \in DOMAIN videos :
        b > a => Attempted("encode", b) /\ (EncodeOk(b) => Attempted("probe", b))

AllToolsSucceeded ==
    pc = "done" /\ videos # <<>> /\ \A k \in DOMAIN log : log[k].out = "ok"

Outputs(ext) == {p \in DOMAIN fs : p.dir = OUTPUT_DIR /\ Suffix(p.name) = ext}

\* C2 as stated: after a run in which every tool invocation succeeded, the
\* output directory holds as many videos and as many thumbnails as there are
\* discovered inputs, and each input's video and thumbnail are its own.
C2_ArtifactPair ==
    AllToolsSucceeded =>
        /\ Cardinality(Outputs(VIDEO_OUT_EXT)) = Len(videos)
        /\ Cardinality(Outputs(THUMBNAIL_EXT)) = Len(videos)
        /\ \A i \in DOMAIN videos :
              /\ fs[DstPath(videos[i])].content = [src |-> videos[i], what |-> "video"]
              /\ fs[ThumbPath(videos[i])].content = [src |-> videos[i], what |-> "thumb"]

\* C3 as stated: when a tool of the thumbnail step (the probe included) exits
\* non-zero or is not found, extract_thumbnail does not raise, the video already
\* written for the file is still there, and the run goes on.
C3_ThumbnailRecoverable ==
    \A k \in DOMAIN log :
        (log[k].tool \in {"probe", "thumb"} /\ log[k].out \in {"nonzero", "notfound"}) =>
            LET i == log[k].i
            IN  k = Len(log) =>
                  /\ thumbRet[i] # "raised"
                  /\ pc # "fatal"
                  /\ fs[DstPath(videos[i])].content = [src |-> videos[i], what |-> "video"]

\* C4: the probe and the thumbnail command of a candidate are invoked only
\* after its encode exited 0 earlier in the run; after a failed encode neither
\* is invoked for it and its iteration writes no thumbnail.
C4_Ordering ==
    \A k \in DOMAIN log :
        /\ log[k].tool \in {"probe", "thumb"} =>
              \E j \in 1..(k - 1) : log[j] = Event("encode", log[k].i, "ok")
        /\ (log[k].tool = "encode" /\ log[k].out # "ok") =>
              /\ ~Attempted("probe", log[k].i)
              /\ ~Attempted("thumb", log[k].i)
              /\ [path |-> ThumbPath(videos[log[k].i]), by |-> log[k].i] \notin written

C4_Witness ==
    /\ pc = "done"
    /\ EncodeFailed(1)
    /\ Attempted("thumb", 2)

FatalTier(e) ==
    \/ e.tool = "probe" /\ e.out = "timeout"
    \/ e.tool = "thumb" /\ e.out = "timeout"
    \/ e.tool = "encode" /\ e.out = "notfound"

\* C5: a probe timeout, a thumbnail timeout or an encoder that is not found is
\* the last thing the run does: the run is halted, no later candidate is
\* processed and the final message is not printed.
C5_FatalTier ==
    \A k \in DOMAIN log :
        FatalTier(log[k]) =>
            /\ k = Len(log)
            /\ pc = "fatal"
            /\ ~FinalMessage
            /\ \A b \in DOMAIN videos :
                  b > log[k].i => \A t \in {"encode", "probe", "thumb"} : ~Attempted(t, b)

C5_Witness ==
    /\ pc = "fatal"
    /\ Len(log) > 0
    /\ Last(log) = Event("thumb", 1, "timeout")
    /\ Len(videos) > 1

\* C6: a tool is invoked or an output written only when the input directory
\* exists and there is a candidate; a missing input directory ends the run
\* fatally with no mkdir and no tool; no candidates ends it successfully with
\* the notice and no tool.
C6_NoProcessingWithoutCandidates ==
    /\ (log # <<>> \/ written # {} \/ fs # fs0) => inputDirExists /\ Len(videos) >= 1
    /\ (~inputDirExists /\ pc # "start") =>
          pc = "fatal" /\ ~mkdirDone /\ log = <<>> /\ written = {} /\ printed = {}
    /\ (inputDirExists /\ pc # "start" /\ videos = <<>>) =>
          pc = "done" /\ log = <<>> /\ written = {} /\ printed = {"no videos"}
    /\ (inputDirExists /\ pc # "start") => mkdirDone

C6_Witness ==
    /\ pc = "done"
    /\ inputDirExists
    /\ DOMAIN fs0 # {}
    /\ videos = <<>>

VideoFiles ==
    { p \in DOMAIN fs0 :
        /\ p.dir \in InputDirs
        /\ fs0[p].kind = "file"
        /\ Lower(Suffix(p.name)) \in VIDEO_EXTS }

\* C7 as stated: the candidate list is exactly the files of the tree with an
\* allowed extension, each once; directories are not listed.
C7_Discovery ==
    (inputDirExists /\ pc # "start") =>
        /\ Range(videos) = VideoFiles
        /\ Len(videos) = Cardinality(VideoFiles)

\* C10: every path written lies directly in OUTPUT_DIR, which is not an input
\* directory; no written path is a discovered input; the input tree has the
\* same entries with the same contents as when the run started.
C10_InputTreeUntouched ==
    /\ OUTPUT_DIR \notin InputDirs
    /\ \A w \in written : w.path.dir = OUTPUT_DIR /\ w.path \notin Range(videos)
    /\ {p \in DOMAIN fs : p.dir \in InputDirs} = DOMAIN fs0
    /\ \A p \in DOMAIN fs0 : fs[p] = fs0[p]
    /\ \A p \in DOMAIN fs : p.dir \notin InputDirs => \E w \in written : w.path = p

C10_Witness ==
    /\ pc = "done"
    /\ Len(videos) >= 2
    /\ EncodeFailed(1)
    /\ thumbRet[2] = "False"
    /\ Cardinality(written) >= 2

----------------------------------------------------------------------------
(* build_ffmpeg_cmd: the scale filter, lines 115-123 *)

MAX_HEIGHT == 540

\* small frame sizes are all tried, up to this one
MaxDim == 12

NoMaxHeight == [set |-> FALSE, v |-> 0]

\* the configured value and the two the comment at line 19 suggests; None
MaxHeights == {NoMaxHeight} \cup {[set |-> TRUE, v |-> h] : h \in {MAX_HEIGHT, 640, 720}}

FrameWidths == 1..MaxDim \cup {540, 541, 960, 1280, 1920, 3840}

FrameHeights == 1..MaxDim \cup {539, 540, 541, 720, 1080, 2160}

Min(a, b) == IF a <= b THEN a ELSE b

\* the height only rounded to even, whatever MAX_HEIGHT is
ScaleHeightNoCap(mh, ih) == (ih \div 2) * 2

\* trunc(min(ih, MAX_HEIGHT)/2)*2, or trunc(ih/2)*2 when MAX_HEIGHT is None
ScaleHeight(mh, ih) ==
    IF ~mh.set THEN (ih \div 2) * 2 ELSE (Min(ih, mh.v) \div 2) * 2

\* trunc(min(iw, iw*MAX_HEIGHT/ih)/2)*2, the quotient kept exact as a fraction
\* over ih; or trunc(iw/2)*2 when MAX_HEIGHT is None
ScaleWidth(mh, iw, ih) ==
    IF ~mh.set THEN (iw \div 2) * 2
    ELSE (Min(iw * ih, iw * mh.v) \div (2 * ih)) * 2

InitScale ==
    /\ inputDirExists = FALSE
    /\ fs0 = FsOf({})
    /\ fs = fs0
    /\ pc = "idle"
    /\ mkdirDone = FALSE
    /\ videos = <<>>
    /\ idx = 0
    /\ seek = 0
    /\ log = <<>>
    /\ thumbRet = <<>>
    /\ written = {}
    /\ printed = {}
    /\ \E mh \in MaxHeights, iw \in FrameWidths, ih \in FrameHeights :
         scaleIn = [mh |-> mh, iw |-> iw, ih |-> ih]
    /\ scaleOut = [done |-> FALSE, w |-> 0, h |-> 0]
    /\ sizeIn = 0
    /\ sizeOut = <<>>

\* ffmpeg evaluating the filter build_ffmpeg_cmd wrote
ApplyScale ==
    /\ ~scaleOut.done
    /\ scaleIn.iw > 0
    /\ scaleOut' = [done |-> TRUE,
                    w |-> ScaleWidth(scaleIn.mh, scaleIn.iw, scaleIn.ih),
                    h |-> ScaleHeight(scaleIn.mh, scaleIn.ih)]
    /\ UNCHANGED <<runVars, scaleIn, sizeIn, sizeOut>>

NextScale == ApplyScale

SpecScale == InitScale /\ [][NextScale]_vars

Even(x) == x % 2 = 0

\* C8 as stated: with MAX_HEIGHT configured, both output dimensions are even
\* and neither exceeds MAX_HEIGHT; for 540 and an input 1080 high the height is
\* 540 and the width is even and at most iw*540/1080.
C8_ScaleAsStated ==
    (scaleOut.done /\ scaleIn.mh.set) =>
        /\ Even(scaleOut.w) /\ Even(scaleOut.h)
        /\ scaleOut.h <= scaleIn.mh.v
        /\ scaleOut.w <= scaleIn.mh.v
        /\ (scaleIn.mh.v = MAX_HEIGHT /\ scaleIn.ih = 1080) =>
              scaleOut.h = MAX_HEIGHT /\ 1080 * scaleOut.w <= scaleIn.iw * MAX_HEIGHT

\* C8 amended: both output dimensions are even, the height does not exceed
\* MAX_HEIGHT, and the width exceeds neither the input width nor
\* iw*MAX_HEIGHT/ih (it may exceed MAX_HEIGHT); for 540 and an input 1080 high
\* the height is 540 and the width is even and at most iw*540/1080.
C8_Scale ==
    (scaleOut.done /\ scaleIn.mh.set) =>
        /\ Even(scaleOut.w) /\ Even(scaleOut.h)
        /\ scaleOut.h <= scaleIn.mh.v
        /\ scaleOut.w <= scaleIn.iw
        /\ scaleOut.w * scaleIn.ih <= scaleIn.iw * scaleIn.mh.v
        /\ (scaleIn.mh.v = MAX_HEIGHT /\ scaleIn.ih = 1080) =>
              scaleOut.h = MAX_HEIGHT /\ 1080 * scaleOut.w <= scaleIn.iw * MAX_HEIGHT

C8_Witness ==
    /\ scaleOut = [done |-> TRUE, w |-> 960, h |-> 540]
    /\ scaleIn = [mh |-> [set |-> TRUE, v |-> MAX_HEIGHT], iw |-> 1920, ih |-> 1080]

----------------------------------------------------------------------------
(* format_size: lines 40-48 *)

KB == 1024

\* byte counts 0..SmallMax are all tried
SmallMax == 2100

\* and this many on each side of every unit boundary and rounding tie above
Window == 40

MB == KB * KB

GB == KB * KB * KB

\* just under 2 GB, the largest byte counts 32-bit integers can enumerate
TopSize == GB + (GB - 2)

SizeSamples ==
    0..SmallMax
      \cup UNION { (c - Window)..(c + Window) :
                     c \in {MB, MB + (MB \div 4), 1000 * MB, GB, GB + (GB \div 4)} }
      \cup (TopSize - Window)..TopSize

Digit(d) ==
    CASE d = 0 -> "0" [] d = 1 -> "1" [] d = 2 -> "2" [] d = 3 -> "3" [] d = 4 -> "4"
      [] d = 5 -> "5" [] d = 6 -> "6" [] d = 7 -> "7" [] d = 8 -> "8" [] d = 9 -> "9"

\* str(n) for n >= 0
RECURSIVE Digits(_)
Digits(n) == IF n < 10 THEN <<Digit(n)>> ELSE Digits(n \div 10) \o <<Digit(n % 10)>>

\* <<q, r>> with k*n = q*u + r and 0 <= r < u, by k additions that stay in range
RECURSIVE TimesDivMod(_, _, _)
TimesDivMod(k, n, u) ==
    IF k = 0 THEN <<0, 0>>
    ELSE LET p == TimesDivMod(k - 1, n, u)
             r == p[2] + (n % u)
         IN  IF r >= u THEN <<p[1] + (n \div u) + 1, r - u>>
             ELSE <<p[1] + (n \div u), r>>

\* the tenths cut off instead of rounded
RoundTenthsTruncated(n, u) == TimesDivMod(10, n, u)[1]

\* f"{n / u:.1f}" as a count of tenths: n / u is exact in a double (u is a power
\* of two), and the format rounds the exact value to the nearest tenth, ties to
\* the even tenth
RoundTenths(n, u) ==
    LET p == TimesDivMod(10, n, u)
    IN  IF p[2] > u - p[2] THEN p[1] + 1
        ELSE IF p[2] = u - p[2] THEN p[1] + (p[1] % 2)
        ELSE p[1]

OneDecimal(t) == Digits(t \div 10) \o <<".">> \o Digits(t % 10)

format_size(n) ==
    IF n < KB THEN Digits(n) \o <<" ", "B">>
    ELSE IF n < KB * KB THEN OneDecimal(RoundTenths(n, KB)) \o <<" ", "K", "B">>
    ELSE IF n < KB * KB * KB THEN OneDecimal(RoundTenths(n, KB * KB)) \o <<" ", "M", "B">>
    ELSE OneDecimal(RoundTenths(n, KB * KB * KB)) \o <<" ", "G", "B">>

InitSize ==
    /\ inputDirExists = FALSE
    /\ fs0 = FsOf({})
    /\ fs = fs0
    /\ pc = "idle"
    /\ mkdirDone = FALSE
    /\ videos = <<>>
    /\ idx = 0
    /\ seek = 0
    /\ log = <<>>
    /\ thumbRet = <<>>
    /\ written = {}
    /\ printed = {}
    /\ scaleIn = [mh |-> NoMaxHeight, iw |-> 0, ih |-> 0]
    /\ scaleOut = [done |-> FALSE, w |-> 0, h |-> 0]
    /\ sizeIn \in SizeSamples
    /\ sizeOut = <<>>

ApplyFormatSize ==
    /\ sizeOut = <<>>
    /\ sizeOut' = format_size(sizeIn)
    /\ UNCHANGED <<runVars, scaleIn, scaleOut, sizeIn>>

NextSize == ApplyFormatSize

SpecSize == InitSize /\ [][NextSize]_vars

DigitChars == {"0", "1", "2", "3", "4", "5", "6", "7", "8", "9"}

DigitVal(c) == CHOOSE d \in 0..9 : Digit(d) = c

\* the number a non-empty sequence of digits writes
RECURSIVE ParseNat(_)
ParseNat(ds) ==
    IF Len(ds) = 1 THEN DigitVal(ds[1])
    ELSE 10 * ParseNat(SubSeq(ds, 1, Len(ds) - 1)) + DigitVal(ds[Len(ds)])

AllDigits(ds) == ds # <<>> /\ \A k \in DOMAIN ds : ds[k] \in DigitChars

\* t tenths of u differ from n by at most a twentieth of u
WithinHalfTenth(t, n, u) ==
    LET p == TimesDivMod(10, n, u)
    IN  \/ t = p[1] /\ p[2] <= u - p[2]
        \/ t = p[1] + 1 /\ u - p[2] <= p[2]

UnitOf(n) ==
    IF n < 1024 THEN <<"B">>
    ELSE IF n < 1024 * 1024 THEN <<"K", "B">>
    ELSE IF n < 1024 * 1024 * 1024 THEN <<"M", "B">>
    ELSE <<"G", "B">>

UnitSize(n) ==
    IF n < 1024 THEN 1
    ELSE IF n < 1024 * 1024 THEN 1024
    ELSE IF n < 1024 * 1024 * 1024 THEN 1024 * 1024
    ELSE 1024 * 1024 * 1024

\* C9: the text is a number, a space and the unit of n's range; below 1024 the
\* number is n itself, above it has one decimal and, times the unit, is within
\* 0.05 unit of n; 1023, 1024, 1024^2 and 1024^3 give "1023 B", "1.0 KB",
\* "1.0 MB" and "1.0 GB".
C9_FormatSize ==
    sizeOut # <<>> =>
        LET sp == CHOOSE k \in 0..Len(sizeOut) :
                      /\ k > 0 => sizeOut[k] = " "
                      /\ \A j \in 1..Len(sizeOut) : sizeOut[j] = " " => k = j
            num == SubSeq(sizeOut, 1, sp - 1)
            unit == SubSeq(sizeOut, sp + 1, Len(sizeOut))
        IN  /\ sp > 1
            /\ unit = UnitOf(sizeIn)
            /\ IF sizeIn < 1024
               THEN AllDigits(num) /\ ParseNat(num) = sizeIn
               ELSE /\ Len(num) >= 3
                    /\ num[Len(num) - 1] = "."
                    /\ AllDigits(SubSeq(num, 1, Len(num) - 2))
                    /\ num[Len(num)] \in DigitChars
                    /\ WithinHalfTenth(
                           10 * ParseNat(SubSeq(num, 1, Len(num) - 2)) + DigitVal(num[Len(num)]),
                           sizeIn, UnitSize(sizeIn))
            /\ sizeIn = 1023 => sizeOut = <<"1", "0", "2", "3", " ", "B">>
            /\ sizeIn = 1024 => sizeOut = <<"1", ".", "0", " ", "K", "B">>
            /\ sizeIn = 1024 * 1024 => sizeOut = <<"1", ".", "0", " ", "M", "B">>
            /\ sizeIn = 1024 * 1024 * 1024 => sizeOut = <<"1", ".", "0", " ", "G", "B">>

C9_Witness ==
    /\ sizeIn = 1024 * 1024 - 1
    /\ sizeOut = <<"1", "0", "2", "4", ".", "0", " ", "K", "B">>

====
